---- MODULE Spec2Model ----
(***************************************************************************)
(* Model of phoenyx.renderer.Renderer: the global drawing state, the       *)
(* affine-transform bookkeeping, the push/pop save stack and the main loop *)
(* of run.  Rasterisation, fonts and windows belong to pygame and are not  *)
(* part of the state.                                                      *)
(***************************************************************************)
EXTENDS Integers, Sequences, FiniteSets, TLC

VARIABLES
    self,       \* the Renderer instance: a record of its fields
    last,       \* name of the last Renderer method called by user code
    out,        \* what the last call did besides its effect: "ok", a warning, or "raise"
    calls,      \* number of Renderer calls made by the user program so far
    pc,         \* where the program is: "idle" (run not called), "setup", "draw",
                \* "poll" (run's widget and event handling), "action" (a button, menu
                \* or key action called by run), "done" (run returned)
    frame,      \* number of draw calls started by run
    ghost,      \* history: the 18 saved fields as they were at each pending push
    undone,     \* history: the 18 saved fields just before the last call, when that
                \* call was a pop that found a save; << >> after any other call
    prev,       \* history: transforms and behaviours when the last draw call returned
    acted,      \* history: run called an action since the last draw call returned
    menus,      \* the Renderer instance: its menu and slider registries
    made,       \* number of Menu and Slider objects constructed so far
    ret,        \* what the last call returned: << >> for None, <<v>> for a value v
    keyb,       \* the Renderer instance: its key bindings
    fired,      \* history: the last event run handled and the actions it invoked
    evts,       \* the Renderer instance: its event registry
    shp,        \* the Renderer instance: the shape being built
    drawn       \* what the last call handed to pygame.draw

\* the variables of the drawing state and of the main loop
drawing == <<self, last, out, calls, pc, frame, ghost, undone, prev, acted>>
\* the variables of the widgets, keys, events and shapes
widgets == <<menus, made, ret, keyb, fired, evts, shp, drawn>>

vars == <<self, last, out, calls, pc, frame, ghost, undone, prev, acted,
          menus, made, ret, keyb, fired, evts, shp, drawn>>

\* ---------------------------------------------------------------- bounds
MaxCalls == 4       \* length of the user program without run, in Renderer calls
MaxRunCalls == 3    \* Renderer calls made by setup, draw and the actions under run
MaxSave == 2        \* depth of the save stack
MaxFrames == 2      \* draw calls made by run

\* ------------------------------------------------------------- constants
CENTER == "CENTER"
CORNER == "CORNER"
RESET == "RESET"
KEEP == "KEEP"

WHITE == <<255, 255, 255>>
BLACK == <<0, 0, 0>>
DARK == <<51, 51, 51>>

\* phoenyx.constants.COLORS, restricted to the names used below
COLORS == [black |-> BLACK, white |-> WHITE]

\* str.lower on the names used below
lower(s) == IF s = "Black" THEN "black" ELSE s

\* difflib.get_close_matches(name, COLORS.keys(), n=1, cutoff=.5)
get_close_matches(s) == IF s = "blak" THEN <<"black">> ELSE << >>

\* ---------------------------------------------------------------- inputs
\* A color argument: a tuple, an int, a str or anything else (None).
Arg(k, t, n, s) == [kind |-> k, tup |-> t, num |-> n, str |-> s]
ColorArgs ==
    { Arg("tuple", BLACK, 0, ""), Arg("tuple", <<0, 0>>, 0, ""),
      Arg("int", << >>, 255, ""),
      Arg("str", << >>, 0, "Black"), Arg("str", << >>, 0, "blak"),
      Arg("str", << >>, 0, "zzz"),
      Arg("none", << >>, 0, "") }
InvalidColorArgs == { a \in ColorArgs : a.kind = "none" \/ (a.kind = "tuple" /\ Len(a.tup) # 3) }
Weights == {0, 2}
Sizes == {12, 20}
Offsets == {0, 1}
Angles == {0, 1}
Scales == {-1, 0, 1, 2}
ModeArgs == {CENTER, CORNER, "MIDDLE"}
BehaviourArgs == {RESET, KEEP, "ONCE"}

\* --------------------------------------------------------------- __init__
NewRenderer ==
    [ _fill_color |-> WHITE, _fill |-> TRUE,
      _stroke_color |-> WHITE, _stroke_weight |-> 1, _stroke |-> TRUE,
      _rect_mode |-> CORNER, _bg |-> DARK,
      _has_translation |-> FALSE, _x_offset |-> 0, _y_offset |-> 0,
      _translation_behaviour |-> RESET,
      _has_rotation |-> FALSE, _rot_angle |-> 0, _rotation_behaviour |-> RESET,
      _has_scale |-> FALSE, _scale_factor |-> 1, _scale_behaviour |-> RESET,
      _text_color |-> WHITE, _text_size |-> 12,
      _has_save |-> FALSE, _save |-> << >>,
      _benchmark |-> FALSE, _is_running |-> TRUE ]

\* A call returns the renderer and its outcome.
Ret(s, o) == [s |-> s, o |-> o]
Ok(s) == Ret(s, "ok")

\* The color branches shared by the fill, stroke and text_color setters:
\* the new color, or the old one when nothing is assigned.
parse_color(old, color) ==
    IF color.kind = "tuple" /\ Len(color.tup) = 3 THEN Ret(color.tup, "ok")
    ELSE IF color.kind = "int" THEN Ret(<<color.num, color.num, color.num>>, "ok")
    ELSE IF color.kind = "str" THEN
        IF lower(color.str) \in DOMAIN COLORS THEN Ret(COLORS[lower(color.str)], "ok")
        ELSE IF get_close_matches(lower(color.str)) = << >> THEN Ret(old, "raise")
        ELSE Ret(COLORS[get_close_matches(lower(color.str))[1]], "warn_color_name")
    ELSE Ret(old, "warn_color")

\* ------------------------------------------------------ drawing attributes
no_fill(s) == Ok([s EXCEPT !._fill = FALSE])

fill_setter(s, color) ==
    LET s1 == [s EXCEPT !._fill = TRUE]
        c == parse_color(s1._fill_color, color)
    IN  Ret([s1 EXCEPT !._fill_color = c.s], c.o)

no_stroke(s) == Ok([s EXCEPT !._stroke = FALSE])

stroke_setter(s, color) ==
    LET s1 == [s EXCEPT !._stroke = TRUE]
        c == parse_color(s1._stroke_color, color)
    IN  Ret([s1 EXCEPT !._stroke_color = c.s], c.o)

stroke_weight_setter(s, weight) ==
    Ok([s EXCEPT !._stroke = TRUE, !._stroke_weight = weight])

\* a rect_mode setter without the membership test
rect_mode_setter_unchecked(s, mode) == Ok([s EXCEPT !._rect_mode = mode])

rect_mode_setter(s, mode) ==
    IF mode \notin {CENTER, CORNER} THEN Ret(s, "warn_rect_mode")
    ELSE Ok([s EXCEPT !._rect_mode = mode])

text_size_setter(s, size) == Ok([s EXCEPT !._text_size = size])

text_color_setter(s, color) ==
    LET c == parse_color(s._text_color, color)
    IN  Ret([s EXCEPT !._text_color = c.s], c.o)

_debug_enabled_drawing_methods(s) ==
    IF (~s._stroke) /\ (~s._fill) THEN
        LET s1 == [s EXCEPT !._stroke = TRUE]
        IN  IF s1._stroke_weight <= 0
            THEN Ret(stroke_weight_setter(s1, 1).s, "warn_drawing")
            ELSE Ret(s1, "warn_drawing")
    ELSE Ok(s)

\* polygon, rect, square, ellipse, circle: the state they leave behind
shape(s) == _debug_enabled_drawing_methods(s)

background(s, color) ==
    IF color.kind = "int" THEN Ok([s EXCEPT !._bg = <<color.num, color.num, color.num>>])
    ELSE IF color.kind = "tuple" /\ Len(color.tup) = 3 THEN Ok([s EXCEPT !._bg = color.tup])
    ELSE IF color.kind = "str" THEN
        IF lower(color.str) \in DOMAIN COLORS THEN Ok([s EXCEPT !._bg = COLORS[lower(color.str)]])
        ELSE IF get_close_matches(lower(color.str)) = << >> THEN Ret(s, "raise")
        ELSE Ret([s EXCEPT !._bg = COLORS[get_close_matches(lower(color.str))[1]]],
                 "warn_color_name")
    ELSE Ret([s EXCEPT !._bg = DARK], "warn_background")

\* -------------------------------------------------------------- transforms
\* a translate that adds to the offsets
translate_additive(s, x, y) ==
    Ok([s EXCEPT !._has_translation = ~(x = 0 /\ y = 0),
                 !._x_offset = @ + x, !._y_offset = @ + y])

translate(s, x, y) ==
    Ok([s EXCEPT !._has_translation = ~(x = 0 /\ y = 0),
                 !._x_offset = x, !._y_offset = y])

rotate(s, angle) ==
    Ok([s EXCEPT !._has_rotation = ~(angle = 0), !._rot_angle = angle])

\* a scale that rejects negative factors only
scale_nonneg(s, sc) ==
    IF sc < 0 THEN Ret(s, "warn_scale")
    ELSE Ok([s EXCEPT !._has_scale = ~(sc = 1), !._scale_factor = sc])

scale(s, sc) ==
    IF sc <= 0 THEN Ret(s, "warn_scale")
    ELSE Ok([s EXCEPT !._has_scale = ~(sc = 1), !._scale_factor = sc])

_reset_translation(s) ==
    [s EXCEPT !._has_translation = FALSE, !._x_offset = 0, !._y_offset = 0]

_reset_rotation(s) == [s EXCEPT !._has_rotation = FALSE, !._rot_angle = 0]

_reset_scale(s) == [s EXCEPT !._has_scale = FALSE, !._scale_factor = 1]

translation_behaviour_setter(s, behaviour) ==
    IF behaviour \notin {"RESET", "KEEP"} THEN Ret(s, "warn_behaviour")
    ELSE Ok([s EXCEPT !._translation_behaviour = behaviour])

rotation_behaviour_setter(s, behaviour) ==
    IF behaviour \notin {"RESET", "KEEP"} THEN Ret(s, "warn_behaviour")
    ELSE Ok([s EXCEPT !._rotation_behaviour = behaviour])

scale_behaviour_setter(s, behaviour) ==
    IF behaviour \notin {"RESET", "KEEP"} THEN Ret(s, "warn_behaviour")
    ELSE Ok([s EXCEPT !._scale_behaviour = behaviour])

\* a reset_matrix that goes back to the original state, colors and sizes included
reset_matrix_original(s) ==
    Ok([NewRenderer EXCEPT !._bg = s._bg, !._save = s._save, !._has_save = s._has_save,
                           !._benchmark = s._benchmark, !._is_running = s._is_running])

reset_matrix(s) ==
    LET s1 == _reset_translation(s)
        s2 == _reset_rotation(s1)
        s3 == rect_mode_setter(s2, CORNER).s
    IN  Ok(translation_behaviour_setter(s3, RESET).s)

set_bench_mode(s, bench) ==
    IF bench = s._benchmark THEN Ret(s, "warn_bench")
    ELSE Ok([s EXCEPT !._benchmark = bench])

\* -------------------------------------------------------------- save stack
push(s) ==
    Ok([s EXCEPT
        !._save = Append(@, << s._fill_color, s._fill, s._stroke_color, s._stroke_weight,
                              s._stroke, s._has_translation, s._x_offset, s._y_offset,
                              s._has_rotation, s._rot_angle, s._has_scale, s._scale_factor,
                              s._rect_mode, s._translation_behaviour, s._rotation_behaviour,
                              s._scale_behaviour, s._text_color, s._text_size >>),
        !._has_save = TRUE])

\* the save removed by list.pop()
popped(save) == save[Len(save)]
\* list.pop(0) would leave this
rest_fifo(save) == SubSeq(save, 2, Len(save))
\* the list left by list.pop()
rest(save) == SubSeq(save, 1, Len(save) - 1)

\* an unpacking that assigns self._fill before self.fill
restore_flag_first(s) ==
        LET v   == popped(s._save)
            s0  == [s EXCEPT !._save = rest(@)]
            s1  == [s0 EXCEPT !._fill = v[2]]
            s2  == fill_setter(s1, Arg("tuple", v[1], 0, "")).s
            s3  == stroke_setter(s2, Arg("tuple", v[3], 0, "")).s
            s4  == stroke_weight_setter(s3, v[4]).s
            s5  == [s4 EXCEPT !._stroke = v[5], !._has_translation = v[6],
                               !._x_offset = v[7], !._y_offset = v[8],
                               !._has_rotation = v[9], !._rot_angle = v[10],
                               !._has_scale = v[11], !._scale_factor = v[12]]
            s6  == rect_mode_setter(s5, v[13]).s
            s7  == translation_behaviour_setter(s6, v[14]).s
            s8  == rotation_behaviour_setter(s7, v[15]).s
            s9  == scale_behaviour_setter(s8, v[16]).s
            s10 == text_color_setter(s9, Arg("tuple", v[17], 0, "")).s
            s11 == text_size_setter(s10, v[18]).s
        IN  Ok([s11 EXCEPT !._has_save = Len(s11._save) >= 1])

\* the unpacking assignment of pop: the save is removed from the list, then the
\* targets are assigned from left to right
restore(s) ==
        LET v   == popped(s._save)
            s0  == [s EXCEPT !._save = rest(@)]
            s1  == fill_setter(s0, Arg("tuple", v[1], 0, "")).s
            s2  == [s1 EXCEPT !._fill = v[2]]
            s3  == stroke_setter(s2, Arg("tuple", v[3], 0, "")).s
            s4  == stroke_weight_setter(s3, v[4]).s
            s5  == [s4 EXCEPT !._stroke = v[5], !._has_translation = v[6],
                               !._x_offset = v[7], !._y_offset = v[8],
                               !._has_rotation = v[9], !._rot_angle = v[10],
                               !._has_scale = v[11], !._scale_factor = v[12]]
            s6  == rect_mode_setter(s5, v[13]).s
            s7  == translation_behaviour_setter(s6, v[14]).s
            s8  == rotation_behaviour_setter(s7, v[15]).s
            s9  == scale_behaviour_setter(s8, v[16]).s
            s10 == text_color_setter(s9, Arg("tuple", v[17], 0, "")).s
            s11 == text_size_setter(s10, v[18]).s
        IN  Ok([s11 EXCEPT !._has_save = Len(s11._save) >= 1])

\* a pop that warns and goes on to list.pop(), which raises on an empty list
pop_no_return(s) == IF ~s._has_save THEN Ret(s, "raise") ELSE restore(s)

pop(s) == IF ~s._has_save THEN Ret(s, "warn_pop") ELSE restore(s)

\* ------------------------------------------------------------------- state
\* the 18 fields that push saves
Saved(s) ==
    [ _fill_color |-> s._fill_color, _fill |-> s._fill,
      _stroke_color |-> s._stroke_color, _stroke_weight |-> s._stroke_weight,
      _stroke |-> s._stroke,
      _has_translation |-> s._has_translation,
      _x_offset |-> s._x_offset, _y_offset |-> s._y_offset,
      _has_rotation |-> s._has_rotation, _rot_angle |-> s._rot_angle,
      _has_scale |-> s._has_scale, _scale_factor |-> s._scale_factor,
      _rect_mode |-> s._rect_mode,
      _translation_behaviour |-> s._translation_behaviour,
      _rotation_behaviour |-> s._rotation_behaviour,
      _scale_behaviour |-> s._scale_behaviour,
      _text_color |-> s._text_color, _text_size |-> s._text_size ]

\* the transforms and their behaviours
Matrix(s) ==
    [ _has_translation |-> s._has_translation,
      _x_offset |-> s._x_offset, _y_offset |-> s._y_offset,
      _has_rotation |-> s._has_rotation, _rot_angle |-> s._rot_angle,
      _has_scale |-> s._has_scale, _scale_factor |-> s._scale_factor,
      _translation_behaviour |-> s._translation_behaviour,
      _rotation_behaviour |-> s._rotation_behaviour,
      _scale_behaviour |-> s._scale_behaviour ]

\* __init__: buttons, sliders and menus management
NewMenus ==
    [ _has_sliders |-> FALSE, _all_sliders |-> {},
      _has_left_menu |-> FALSE, _has_right_menu |-> FALSE, _all_menus |-> {} ]

\* __init__: keys
NewKeys ==
    [ _key_binding |-> << >>, _actions |-> << >>, _keys_behaviour |-> << >>,
      _pressed |-> << >> ]

\* no event handled yet
NoEvent == [type |-> "", key |-> 0, invoked |-> << >>, down |-> {}]

\* the event registry of a renderer on which Events works
NewEvents == [ _last_event_id |-> 0, _all_events |-> << >>, _events_act |-> << >> ]

\* __init__: shapes
NewShape == [ _is_drawing_shape |-> FALSE, _all_vertexes |-> << >> ]

Init ==
    /\ self = NewRenderer
    /\ last = "__init__"
    /\ out = "ok"
    /\ calls = 0
    /\ pc = "idle"
    /\ frame = 0
    /\ ghost = << >>
    /\ undone = << >>
    /\ prev = Matrix(NewRenderer)
    /\ acted = FALSE
    /\ menus = NewMenus
    /\ made = 0
    /\ ret = << >>
    /\ keyb = NewKeys
    /\ fired = NoEvent
    /\ evts = NewEvents
    /\ shp = NewShape
    /\ drawn = << >>

\* user code is running: before run, or inside setup, draw or an action
UserCode == pc \in {"idle", "setup", "draw", "action"}

\* one call of Renderer method name made by user code, with result r
Call(name, r) ==
    /\ UserCode
    /\ calls < (IF pc = "idle" THEN MaxCalls ELSE MaxRunCalls)
    /\ last' = name
    /\ self' = r.s
    /\ out' = r.o
    /\ calls' = calls + 1
    /\ UNCHANGED <<pc, frame, prev, acted>>
    /\ UNCHANGED widgets

NoFill == Call("no_fill", no_fill(self)) /\ UNCHANGED <<ghost, undone>>
fill_call(color) == Call("fill", fill_setter(self, color)) /\ UNCHANGED <<ghost, undone>>
SetFill == \E color \in ColorArgs : fill_call(color)
NoStroke == Call("no_stroke", no_stroke(self)) /\ UNCHANGED <<ghost, undone>>
stroke_call(color) == Call("stroke", stroke_setter(self, color)) /\ UNCHANGED <<ghost, undone>>
SetStroke == \E color \in ColorArgs : stroke_call(color)
SetStrokeWeight ==
    \E weight \in Weights : Call("stroke_weight", stroke_weight_setter(self, weight)) /\ UNCHANGED <<ghost, undone>>
rect_mode_call(mode) ==
    Call("rect_mode", rect_mode_setter(self, mode)) /\ UNCHANGED <<ghost, undone>>
SetRectMode == \E mode \in ModeArgs : rect_mode_call(mode)
SetTextSize == \E size \in Sizes : Call("text_size", text_size_setter(self, size)) /\ UNCHANGED <<ghost, undone>>
SetTextColor ==
    \E color \in ColorArgs : Call("text_color", text_color_setter(self, color)) /\ UNCHANGED <<ghost, undone>>
Shape == Call("shape", shape(self)) /\ UNCHANGED <<ghost, undone>>
Background == \E color \in ColorArgs : Call("background", background(self, color)) /\ UNCHANGED <<ghost, undone>>
translate_call(x, y) ==
    Call("translate", translate(self, x, y)) /\ UNCHANGED <<ghost, undone>>
Translate == \E x \in Offsets, y \in Offsets : translate_call(x, y)
Rotate == \E angle \in Angles : Call("rotate", rotate(self, angle)) /\ UNCHANGED <<ghost, undone>>
scale_call(sc) == Call("scale", scale(self, sc)) /\ UNCHANGED <<ghost, undone>>
Scale == \E sc \in Scales : scale_call(sc)
ResetMatrix == Call("reset_matrix", reset_matrix(self)) /\ UNCHANGED <<ghost, undone>>
translation_behaviour_call(b) ==
    Call("translation_behaviour", translation_behaviour_setter(self, b)) /\ UNCHANGED <<ghost, undone>>
SetTranslationBehaviour == \E b \in BehaviourArgs : translation_behaviour_call(b)
rotation_behaviour_call(b) ==
    Call("rotation_behaviour", rotation_behaviour_setter(self, b)) /\ UNCHANGED <<ghost, undone>>
SetRotationBehaviour == \E b \in BehaviourArgs : rotation_behaviour_call(b)
scale_behaviour_call(b) ==
    Call("scale_behaviour", scale_behaviour_setter(self, b)) /\ UNCHANGED <<ghost, undone>>
SetScaleBehaviour == \E b \in BehaviourArgs : scale_behaviour_call(b)
SetBenchMode == \E bench \in BOOLEAN : Call("set_bench_mode", set_bench_mode(self, bench)) /\ UNCHANGED <<ghost, undone>>

Push ==
    /\ Len(self._save) < MaxSave
    /\ Call("push", push(self))
    /\ ghost' = Append(ghost, Saved(self))
    /\ undone' = << >>

Pop ==
    /\ Call("pop", pop(self))
    /\ ghost' = IF ghost = << >> THEN ghost ELSE SubSeq(ghost, 1, Len(ghost) - 1)
    /\ undone' = IF ghost = << >> THEN << >> ELSE <<Saved(self)>>

ApiCall ==
    \/ NoFill \/ SetFill \/ NoStroke \/ SetStroke \/ SetStrokeWeight
    \/ SetRectMode \/ SetTextSize \/ SetTextColor \/ Shape \/ Background
    \/ Translate \/ Rotate \/ Scale \/ ResetMatrix
    \/ SetTranslationBehaviour \/ SetRotationBehaviour \/ SetScaleBehaviour
    \/ SetBenchMode \/ Push \/ Pop

\* the program uses the renderer without run
Next == ApiCall

Spec == Init /\ [][Next]_vars

\* --------------------------------------------------------------------- run
\* run(draw, setup) is called: setup() starts
Run ==
    /\ pc = "idle"
    /\ pc' = "setup"
    /\ UNCHANGED <<self, last, out, calls, frame, ghost, undone, prev, acted>>
    /\ UNCHANGED widgets

\* the loop test of run, taken with renderer s: the next draw call or the end
loop(s) == IF s._is_running THEN "draw" ELSE "done"

\* setup() returns and the loop is entered
SetupReturn ==
    /\ pc = "setup"
    /\ frame < MaxFrames
    /\ pc' = loop(self)
    /\ frame' = IF pc' = "draw" THEN frame + 1 ELSE frame
    /\ UNCHANGED <<self, last, out, calls, ghost, undone, prev, acted>>
    /\ UNCHANGED widgets

\* a reset that does not look at the behaviours
reset_policy_always(s) == _reset_scale(_reset_rotation(_reset_translation(s)))

\* translation, rotation, scale management after draw()
reset_policy(s) ==
    LET s1 == IF s._translation_behaviour = RESET THEN _reset_translation(s) ELSE s
        s2 == IF s1._rotation_behaviour = RESET THEN _reset_rotation(s1) ELSE s1
    IN  IF s2._scale_behaviour = RESET THEN _reset_scale(s2) ELSE s2

\* draw() returns and the transforms are reset as their behaviours say
DrawReturn ==
    /\ pc = "draw"
    /\ self' = reset_policy(self)
    /\ prev' = Matrix(self)
    /\ acted' = FALSE
    /\ pc' = "poll"
    /\ UNCHANGED <<last, out, calls, frame, ghost, undone>>
    /\ UNCHANGED widgets

\* bench mode off: run calls the action of a button, of a menu or of a key
ActionCall ==
    /\ pc = "poll"
    /\ ~self._benchmark
    /\ pc' = "action"
    /\ acted' = TRUE
    /\ UNCHANGED <<self, last, out, calls, frame, ghost, undone, prev>>
    /\ UNCHANGED widgets

\* the action returns to run
ActionReturn ==
    /\ pc = "action"
    /\ pc' = "poll"
    /\ UNCHANGED <<self, last, out, calls, frame, ghost, undone, prev, acted>>
    /\ UNCHANGED widgets

\* the events of the frame have been read, with or without a QUIT event,
\* and the loop test is taken again
FrameEnd ==
    /\ pc = "poll"
    /\ \E quit \in BOOLEAN :
        /\ self' = IF quit THEN [self EXCEPT !._is_running = FALSE] ELSE self
        /\ pc' = loop(self')
    /\ pc' = "draw" => frame < MaxFrames
    /\ frame' = IF pc' = "draw" THEN frame + 1 ELSE frame
    /\ UNCHANGED <<last, out, calls, ghost, undone, prev, acted>>
    /\ UNCHANGED widgets

\* the program constructs the renderer and calls run: every Renderer call is
\* made by setup, by draw or by an action
NextRun ==
    \/ (pc # "idle" /\ ApiCall)
    \/ Run \/ SetupReturn \/ DrawReturn \/ ActionCall \/ ActionReturn \/ FrameEnd

SpecRun == Init /\ [][NextRun]_vars

\* ================================================================== claims
\* a step made by a call of the Renderer method name
Step(name) == last' = name /\ calls' = calls + 1

\* a save as push stores it, read as the 18 fields
AsSaved(v) ==
    [ _fill_color |-> v[1], _fill |-> v[2], _stroke_color |-> v[3],
      _stroke_weight |-> v[4], _stroke |-> v[5], _has_translation |-> v[6],
      _x_offset |-> v[7], _y_offset |-> v[8], _has_rotation |-> v[9],
      _rot_angle |-> v[10], _has_scale |-> v[11], _scale_factor |-> v[12],
      _rect_mode |-> v[13], _translation_behaviour |-> v[14],
      _rotation_behaviour |-> v[15], _scale_behaviour |-> v[16],
      _text_color |-> v[17], _text_size |-> v[18] ]

\* C1: a pop that finds a save leaves the 18 saved fields as they were at the
\* moment of the matching push, whatever was called in between.
C1_PopRestoresPush ==
    [][(Step("pop") /\ ghost # << >>) => Saved(self') = ghost[Len(ghost)]]_vars

\* no_fill, push, fill = black, pop: the pop has just undone the fill color and
\* the fill flag set after the push
C1_Witness ==
    /\ last = "pop" /\ out = "ok" /\ undone # << >>
    /\ undone[1]._fill /\ undone[1]._fill_color = BLACK
    /\ ~self._fill /\ self._fill_color = WHITE
    /\ ghost = << >>

\* C2: the save stack is last-in-first-out: the saves sit in the order of their
\* pushes, a pop that finds a save removes exactly the last one and restores
\* it, and _has_save tells whether a save is left.
C2_StackOrder ==
    /\ Len(self._save) = Len(ghost)
    /\ \A i \in 1..Len(ghost) : AsSaved(self._save[i]) = ghost[i]
    /\ self._has_save <=> ghost # << >>

C2_Lifo ==
    /\ []C2_StackOrder
    /\ [][(Step("pop") /\ ghost # << >>) =>
            /\ Len(self'._save) = Len(self._save) - 1
            /\ \A i \in 1..Len(self'._save) : self'._save[i] = self._save[i]
            /\ Saved(self') = AsSaved(self._save[Len(self._save)])]_vars

\* the second of two saves, different from the first, has just been restored
\* and the first one is still pending
C2_Witness ==
    /\ last = "pop" /\ out = "ok" /\ undone # << >>
    /\ Len(self._save) = 1 /\ self._has_save
    /\ Saved(self) # AsSaved(self._save[1])

\* C3: pop without a pending push warns, raises nothing and changes no field.
C3_PopWithoutSave ==
    [][(Step("pop") /\ ghost = << >>) => (self' = self /\ out' = "warn_pop")]_vars

\* a pop has just warned on a renderer that is no longer in its initial state
C3_Witness ==
    /\ last = "pop" /\ out = "warn_pop"
    /\ self._save = << >> /\ ~self._has_save
    /\ Saved(self) # Saved(NewRenderer)

\* C4: translate(x, y) sets the offsets to exactly (x, y), turns translation on
\* unless both are 0, and changes nothing else.
C4_TranslateNotAdditive ==
    [][\A x \in Offsets, y \in Offsets :
        translate_call(x, y) =>
            self' = [self EXCEPT !._x_offset = x, !._y_offset = y,
                                 !._has_translation = (x # 0 \/ y # 0)]]_vars

\* translate(1, 0), push, translate(0, 1): only the second translation is left
C4_Witness ==
    /\ last = "translate" /\ calls = 3
    /\ Len(ghost) = 1 /\ ghost[1]._x_offset = 1 /\ ghost[1]._y_offset = 0
    /\ self._x_offset = 0 /\ self._y_offset = 1 /\ self._has_translation

\* run starts a draw call that is not the first one
StartsDraw == pc # "draw" /\ pc' = "draw" /\ frame >= 1

\* renderer s, at the start of a draw call, follows the reset policy with
\* respect to p, the transforms and behaviours at the end of the previous one
FollowsPolicy(s, p) ==
    /\ s._translation_behaviour = RESET =>
            (s._x_offset = 0 /\ s._y_offset = 0 /\ ~s._has_translation)
    /\ s._translation_behaviour = KEEP =>
            (s._x_offset = p._x_offset /\ s._y_offset = p._y_offset
             /\ s._has_translation = p._has_translation)
    /\ s._rotation_behaviour = RESET => (s._rot_angle = 0 /\ ~s._has_rotation)
    /\ s._rotation_behaviour = KEEP =>
            (s._rot_angle = p._rot_angle /\ s._has_rotation = p._has_rotation)
    /\ s._scale_behaviour = RESET => (s._scale_factor = 1 /\ ~s._has_scale)
    /\ s._scale_behaviour = KEEP =>
            (s._scale_factor = p._scale_factor /\ s._has_scale = p._has_scale)

\* C5 (as claimed): at the start of every draw call after the first, each
\* transform whose behaviour is RESET is the identity and each transform whose
\* behaviour is KEEP is as the previous draw call left it.
C5_ResetPolicyEveryFrame == [][StartsDraw => FollowsPolicy(self', prev)]_vars

\* C5 (amended): the same, for the draw calls that follow the previous one
\* without run having called a button, menu or key action in between.
C5_ResetPolicyWithoutAction ==
    [][(StartsDraw /\ ~acted) => FollowsPolicy(self', prev)]_vars

\* the second draw call starts with the translation kept and the rotation
\* reset, both having been set by the first draw call
C5_Witness ==
    /\ pc = "draw" /\ frame = 2 /\ ~acted
    /\ prev._translation_behaviour = KEEP /\ prev._x_offset = 1
    /\ prev._rotation_behaviour = RESET /\ prev._rot_angle = 1
    /\ self._translation_behaviour = KEEP /\ self._x_offset = 1
    /\ self._rotation_behaviour = RESET /\ self._rot_angle = 0

\* C6 (as claimed): after reset_matrix the offsets, the angle, the scale factor,
\* the rect mode and the three behaviours are those of a new Renderer.
C6_ResetMatrixRestoresAll ==
    last = "reset_matrix" =>
        (Matrix(self) = Matrix(NewRenderer) /\ self._rect_mode = NewRenderer._rect_mode)

\* the colors, the sizes, the flags that go with them and the save stack
Colors(s) ==
    [ _fill_color |-> s._fill_color, _fill |-> s._fill,
      _stroke_color |-> s._stroke_color, _stroke |-> s._stroke,
      _stroke_weight |-> s._stroke_weight,
      _text_color |-> s._text_color, _text_size |-> s._text_size,
      _bg |-> s._bg, _save |-> s._save, _has_save |-> s._has_save ]

\* C7: reset_matrix changes no color, no size, neither the fill nor the stroke
\* flag, nor the background color, nor the save stack.
C7_ResetMatrixKeepsColors ==
    [][Step("reset_matrix") => Colors(self') = Colors(self)]_vars

\* reset_matrix has just run on a renderer whose colors, flags, sizes and save
\* stack are not the initial ones
C7_Witness ==
    /\ last = "reset_matrix"
    /\ self._fill_color = BLACK /\ ~self._stroke /\ self._has_save
    /\ Len(self._save) = 1

\* C8: scale(s) with s <= 0 warns and changes nothing; with s > 0 the factor
\* becomes s, scaling is on exactly when s # 1, and nothing else changes.
C8_ScaleRejectsNonPositive ==
    [][\A sc \in Scales :
        scale_call(sc) =>
            IF sc <= 0
            THEN self' = self /\ out' = "warn_scale"
            ELSE self' = [self EXCEPT !._scale_factor = sc, !._has_scale = (sc # 1)]]_vars

\* a scale call has just been rejected and the factor 2 set before is still on
C8_Witness ==
    /\ last = "scale" /\ out = "warn_scale"
    /\ self._scale_factor = 2 /\ self._has_scale

\* C9 (as claimed): assigning an invalid color to fill or to stroke changes
\* neither the color nor the fill or stroke flag.
C9_InvalidColorChangesNothing ==
    [][\A color \in InvalidColorArgs :
        (fill_call(color) \/ stroke_call(color)) => self' = self]_vars

\* the modes hold the values their setters accept
ModesValid ==
    /\ self._rect_mode \in {CENTER, CORNER}
    /\ self._translation_behaviour \in {RESET, KEEP}
    /\ self._rotation_behaviour \in {RESET, KEEP}
    /\ self._scale_behaviour \in {RESET, KEEP}

\* C10: rect_mode is always CENTER or CORNER and the three behaviours are
\* always RESET or KEEP; assigning another value changes nothing, and assigning
\* rect_mode changes neither the fill flag nor the stroke flag.
C10_ModesValidated ==
    /\ []ModesValid
    /\ [][/\ \A mode \in ModeArgs :
                rect_mode_call(mode) =>
                    /\ self'._fill = self._fill /\ self'._stroke = self._stroke
                    /\ mode \notin {CENTER, CORNER} => self' = self
           /\ \A b \in BehaviourArgs \ {RESET, KEEP} :
                (translation_behaviour_call(b) \/ rotation_behaviour_call(b)
                 \/ scale_behaviour_call(b)) => self' = self]_vars

\* an invalid rect mode has just been refused: the mode is still CENTER and
\* filling and stroking are still off
C10_Witness ==
    /\ last = "rect_mode" /\ out = "warn_rect_mode"
    /\ self._rect_mode = CENTER /\ ~self._fill /\ ~self._stroke

\* =================================================================== menus
MaxObjects == 3     \* Menu and Slider objects constructed

LEFT == "LEFT"
RIGHT == "RIGHT"

MenuNames == {"menu", "tools"}
Sides == {LEFT, RIGHT}

\* a Menu or Slider object: id tells two objects apart, has_error is set by a
\* constructor that rejected its arguments
Sprite(id, name, side, err) == [id |-> id, name |-> name, side |-> side, has_error |-> err]

\* a call on the registries returns them, its outcome and its return value
RetM(m, o, r) == [s |-> m, o |-> o, r |-> r]

_add_slider(m, slider) == [m EXCEPT !._all_sliders = @ \cup {slider}]

create_slider(m, slider) ==
    IF slider.has_error THEN RetM(m, "error_slider", << >>)
    ELSE RetM([_add_slider(m, slider) EXCEPT !._has_sliders = TRUE], "ok", <<slider>>)

_add_menu(m, menu) == [m EXCEPT !._all_menus = @ \cup {menu}]

\* a create_menu that does not look at the side flags
create_menu_any_side(m, menu) ==
    IF menu.has_error THEN RetM(m, "error_menu", << >>)
    ELSE LET m1 == _add_menu(m, menu)
             m2 == IF menu.side = LEFT THEN [m1 EXCEPT !._has_left_menu = TRUE]
                   ELSE IF menu.side = RIGHT THEN [m1 EXCEPT !._has_right_menu = TRUE]
                   ELSE m1
         IN  RetM(m2, "ok", <<menu>>)

create_menu(m, menu) ==
    IF menu.has_error THEN RetM(m, "error_menu", << >>)
    ELSE IF (menu.side = LEFT /\ m._has_left_menu) \/ (menu.side = RIGHT /\ m._has_right_menu)
    THEN RetM(m, "warn_menu_side", << >>)
    ELSE LET m1 == _add_menu(m, menu)
             m2 == IF menu.side = LEFT THEN [m1 EXCEPT !._has_left_menu = TRUE]
                   ELSE IF menu.side = RIGHT THEN [m1 EXCEPT !._has_right_menu = TRUE]
                   ELSE m1
         IN  RetM(m2, "ok", <<menu>>)

\* sprite is << >> for None; set.remove raises KeyError on a missing element
_remove_menu(m, sprite) ==
    IF sprite = << >> THEN RetM(m, "ok", << >>)
    ELSE IF sprite[1] \notin m._all_sliders THEN RetM(m, "raise", << >>)
    ELSE LET m1 == [m EXCEPT !._all_sliders = @ \ {sprite[1]}]
         IN  IF Cardinality(m1._all_sliders) = 0
             THEN IF sprite[1].side = LEFT
                  THEN RetM([m1 EXCEPT !._has_left_menu = FALSE], "ok", << >>)
                  ELSE IF sprite[1].side = RIGHT
                  THEN RetM([m1 EXCEPT !._has_right_menu = FALSE], "ok", << >>)
                  ELSE RetM(m1, "ok", << >>)
             ELSE RetM(m1, "ok", << >>)

\* the menus named name
matching(m, name) == { menu \in m._all_menus : menu.name = name }

\* the sprites the scan over the set can end with: None, or any match, as the
\* order in which a set is iterated is not fixed
found(m, name) ==
    IF matching(m, name) = {} THEN { << >> } ELSE { <<menu>> : menu \in matching(m, name) }

\* the warning of the scan
scan_warning(m, name) ==
    IF Cardinality(matching(m, name)) = 0 THEN "warn_no_menu"
    ELSE IF Cardinality(matching(m, name)) >= 2 THEN "warn_many_menus"
    ELSE "ok"

get_menu(m, name, sprite) == RetM(m, scan_warning(m, name), sprite)

kill_menu(m, name, sprite) ==
    LET r == _remove_menu(m, sprite)
    IN  RetM(r.s, IF r.o = "raise" THEN "raise" ELSE scan_warning(m, name), << >>)

pop_menu(m, name, sprite) ==
    LET r == _remove_menu(m, sprite)
    IN  IF r.o = "raise" THEN RetM(r.s, "raise", << >>)
        ELSE RetM(r.s, scan_warning(m, name), sprite)

\* one call of a Renderer method on its widgets, keys, events or shape, with
\* outcome o and return value r
WidgetCall(name, o, r) ==
    /\ UserCode
    /\ calls < (IF pc = "idle" THEN MaxCalls ELSE MaxRunCalls)
    /\ last' = name
    /\ out' = o
    /\ ret' = r
    /\ calls' = calls + 1
    /\ UNCHANGED <<self, pc, frame, ghost, undone, prev, acted>>

\* a call on the menu and slider registries, with result r
MenuCall(name, r) ==
    /\ WidgetCall(name, r.o, r.r)
    /\ menus' = r.s
    /\ UNCHANGED <<keyb, fired, evts, shp, drawn>>

CreateSlider ==
    /\ made < MaxObjects
    /\ made' = made + 1
    /\ \E name \in MenuNames, err \in BOOLEAN :
        MenuCall("create_slider", create_slider(menus, Sprite(made + 1, name, "", err)))

create_menu_call(name, side, err) ==
    /\ made < MaxObjects
    /\ made' = made + 1
    /\ MenuCall("create_menu", create_menu(menus, Sprite(made + 1, name, side, err)))
CreateMenu == \E name \in MenuNames, side \in Sides, err \in BOOLEAN : create_menu_call(name, side, err)

GetMenu ==
    \E name \in MenuNames : \E sprite \in found(menus, name) :
        MenuCall("get_menu", get_menu(menus, name, sprite)) /\ UNCHANGED made

kill_menu_call(name) ==
    \E sprite \in found(menus, name) :
        MenuCall("kill_menu", kill_menu(menus, name, sprite)) /\ UNCHANGED made
KillMenu == \E name \in MenuNames : kill_menu_call(name)

pop_menu_call(name) ==
    \E sprite \in found(menus, name) :
        MenuCall("pop_menu", pop_menu(menus, name, sprite)) /\ UNCHANGED made
PopMenu == \E name \in MenuNames : pop_menu_call(name)

\* the program creates, looks up and removes menus and sliders
NextMenus == CreateSlider \/ CreateMenu \/ GetMenu \/ KillMenu \/ PopMenu

SpecMenus == Init /\ [][NextMenus]_vars

\* the registry holds at most one LEFT menu and at most one RIGHT menu
OneMenuPerSide ==
    \A side \in Sides : Cardinality({ menu \in menus._all_menus : menu.side = side }) <= 1

\* C11: the registry never holds two menus on the same side, and create_menu
\* for a side that already has a menu returns None and leaves the registry and
\* the side flags as they were.
C11_OneMenuPerSide ==
    /\ []OneMenuPerSide
    /\ [][\A name \in MenuNames, side \in Sides, err \in BOOLEAN :
            (create_menu_call(name, side, err)
             /\ \E menu \in menus._all_menus : menu.side = side)
                => (ret' = << >> /\ menus' = menus)]_vars

\* a create_menu has just been refused while both sides hold a menu
C11_Witness ==
    /\ last = "create_menu" /\ out = "warn_menu_side" /\ ret = << >>
    /\ Cardinality(menus._all_menus) = 2
    /\ menus._has_left_menu /\ menus._has_right_menu

\* C12 (as claimed): kill_menu(name) and pop_menu(name), called while exactly one
\* menu is named name, do not raise, leave no menu of that name in the
\* registry, free the side of the menu, and pop_menu returns the menu.
C12_KillMenuRemoves ==
    [][\A name \in MenuNames :
        (Cardinality(matching(menus, name)) = 1
         /\ (kill_menu_call(name) \/ pop_menu_call(name)))
            => /\ out' # "raise"
               /\ matching(menus', name) = {}
               /\ \A menu \in matching(menus, name) :
                    /\ menu.side = LEFT => ~menus'._has_left_menu
                    /\ menu.side = RIGHT => ~menus'._has_right_menu
                    /\ last' = "pop_menu" => ret' = <<menu>>]_vars

\* ========================================================= key bindings
PRESSED == "PRESSED"
RELEASED == "RELEASED"
HOLD == "HOLD"
KEYDOWN == "KEYDOWN"
KEYUP == "KEYUP"
MOUSEMOTION == "MOUSEMOTION"

\* keyboard key identifiers, actions and behaviours handed to the key methods
KeyArgs == {97, 98}
Acts == {"f", "g"}
KeyBehaviourArgs == {PRESSED, RELEASED, HOLD, "TOGGLE"}
None == "None"
\* the action lambda: None that kill_keypress leaves behind
NoAction == "lambda: None"

\* d[k] = v and d.pop(k) on a dict
put(d, k, v) == [x \in (DOMAIN d) \cup {k} |-> IF x = k THEN v ELSE d[x]]
without(d, k) == IF (DOMAIN d) \ {k} = {} THEN << >> ELSE [x \in (DOMAIN d) \ {k} |-> d[x]]

\* _actions and _keys_behaviour are indexed from 1 here, from 0 in the source
new_keypress(b, key, action, behaviour) ==
    IF key \in DOMAIN b._key_binding THEN Ret(b, "warn_key_assigned")
    ELSE IF behaviour \notin {PRESSED, RELEASED, HOLD} THEN Ret(b, "warn_key_behaviour")
    ELSE Ok([b EXCEPT !._actions = Append(@, action),
                      !._keys_behaviour = Append(@, behaviour),
                      !._key_binding = put(@, key, Len(b._actions) + 1)])

update_keypress(b, key, action, behaviour) ==
    IF key \notin DOMAIN b._key_binding THEN Ret(b, "warn_key_unassigned")
    ELSE IF behaviour # None /\ behaviour \notin {PRESSED, RELEASED, HOLD}
         THEN Ret(b, "warn_key_behaviour")
    ELSE LET i == b._key_binding[key]
         IN  Ok([b EXCEPT !._actions[i] = action,
                          !._keys_behaviour[i] = IF behaviour # None THEN behaviour ELSE @])

kill_keypress(b, key) ==
    IF key \notin DOMAIN b._key_binding THEN Ret(b, "warn_key_unassigned")
    ELSE LET i == b._key_binding[key]
         IN  Ok([b EXCEPT !._actions[i] = NoAction,
                          !._key_binding = without(@, key),
                          !._pressed = without(@, key)])

\* the behaviour whose action the branch of an event type calls
fires_on(type) == IF type = KEYUP THEN RELEASED ELSE PRESSED

\* the KEYUP / KEYDOWN branch for one event: the indexes of the actions it calls
branch_actions(b, type, key) ==
    IF /\ type \in {KEYUP, KEYDOWN}
       /\ key \in DOMAIN b._key_binding
       /\ b._keys_behaviour[b._key_binding[key]] = fires_on(type)
    THEN {b._key_binding[key]}
    ELSE {}

\* the KEYUP / KEYDOWN branch for one event: _pressed as the branch leaves it
branch_pressed(b, type, key) ==
    IF /\ type \in {KEYUP, KEYDOWN}
       /\ key \in DOMAIN b._key_binding
       /\ b._keys_behaviour[b._key_binding[key]] = HOLD
    THEN put(b._pressed, key, type = KEYDOWN)
    ELSE b._pressed

\* the keys k of _pressed with _pressed[k] true whose action has index i
held(b, pressed, i) == { k \in DOMAIN pressed : pressed[k] /\ b._key_binding[k] = i }

\* one pass of the event loop of run for an event: the key state after it and,
\* for each action index, the number of times the action was called
dispatch(b, type, key) ==
    LET pressed == branch_pressed(b, type, key)
    IN  [ s |-> [b EXCEPT !._pressed = pressed],
          invoked |-> [ i \in 1..Len(b._actions) |->
                          (IF i \in branch_actions(b, type, key) THEN 1 ELSE 0)
                          + Cardinality(held(b, pressed, i)) ] ]

\* the bench-mode loop of run reads the events and looks for QUIT only
bench_dispatch(b) == [ s |-> b, invoked |-> [ i \in 1..Len(b._actions) |-> 0 ] ]

KeyCall(name, r) ==
    /\ WidgetCall(name, r.o, << >>)
    /\ keyb' = r.s
    /\ UNCHANGED <<menus, made, fired, evts, shp, drawn>>

new_keypress_call(key, action, behaviour) ==
    /\ Len(keyb._actions) < MaxObjects
    /\ KeyCall("new_keypress", new_keypress(keyb, key, action, behaviour))

NewKeypress ==
    \E key \in KeyArgs, action \in Acts, behaviour \in KeyBehaviourArgs :
        new_keypress_call(key, action, behaviour)

update_keypress_call(key, action, behaviour) ==
    KeyCall("update_keypress", update_keypress(keyb, key, action, behaviour))

UpdateKeypress ==
    \E key \in KeyArgs, action \in Acts, behaviour \in KeyBehaviourArgs \cup {None} :
        update_keypress_call(key, action, behaviour)

KillKeypress == \E key \in KeyArgs : KeyCall("kill_keypress", kill_keypress(keyb, key))

\* the keys held down on the keyboard after an event
keyboard(down, type, key) ==
    IF type = KEYDOWN THEN down \cup {key}
    ELSE IF type = KEYUP THEN down \ {key}
    ELSE down

\* run takes one event from pygame.event.get(): a key goes down when it is up
\* and up when it is down
key_event(type, key) ==
    /\ pc = "poll"
    /\ type = KEYDOWN => key \notin fired.down
    /\ type = KEYUP => key \in fired.down
    /\ LET d == IF self._benchmark THEN bench_dispatch(keyb) ELSE dispatch(keyb, type, key)
       IN  /\ keyb' = d.s
           /\ fired' = [ type |-> type, key |-> key, invoked |-> d.invoked,
                         down |-> keyboard(fired.down, type, key) ]
    /\ UNCHANGED drawing
    /\ UNCHANGED <<menus, made, ret, evts, shp, drawn>>

KeyEvent ==
    \/ \E type \in {KEYDOWN, KEYUP}, key \in KeyArgs : key_event(type, key)
    \/ key_event(MOUSEMOTION, 0)

NextKeys ==
    \/ NewKeypress \/ UpdateKeypress \/ KillKeypress \/ SetBenchMode
    \/ Run \/ SetupReturn \/ DrawReturn \/ KeyEvent \/ FrameEnd

SpecKeys == Init /\ [][NextKeys]_vars

\* C13 (as claimed): with bench mode off, an event of a key bound with PRESSED
\* calls the action of the key once when it is a KEYDOWN and not at all when it
\* is a KEYUP; an event of a key bound with RELEASED calls the action of the key
\* once when it is a KEYUP and not at all when it is a KEYDOWN; an event of an
\* unbound key calls no action, the actions of keys held down under HOLD apart.
C13_KeyDispatch ==
    [][\A type \in {KEYDOWN, KEYUP}, key \in KeyArgs :
        (key_event(type, key) /\ ~self._benchmark)
            => /\ \A behaviour \in {PRESSED, RELEASED} :
                    (/\ key \in DOMAIN keyb._key_binding
                     /\ keyb._keys_behaviour[keyb._key_binding[key]] = behaviour)
                        => fired'.invoked[keyb._key_binding[key]]
                             = (IF behaviour = fires_on(type) THEN 1 ELSE 0)
               /\ key \notin DOMAIN keyb._key_binding
                    => \A i \in DOMAIN fired'.invoked :
                         fired'.invoked[i] > 0
                            => \E k \in DOMAIN keyb._key_binding :
                                 /\ keyb._key_binding[k] = i
                                 /\ keyb._keys_behaviour[i] = HOLD]_vars

\* ======================================================= event registry
\* names handed to Events.new; "" is the name of a terminated event
EventNames == {"load", "save", ""}

\* an id-reusing variant of new: the last event id is not incremented
new_same_id(e, name, act) ==
    LET k == e._last_event_id
    IN  [e EXCEPT !._all_events = put(@, k, <<name, None>>),
                  !._events_act = put(@, k, act)]

new(e, name, act) ==
    LET k == e._last_event_id + 1
    IN  [e EXCEPT !._last_event_id = k,
                  !._all_events = put(@, k, <<name, None>>),
                  !._events_act = put(@, k, act)]

\* the ids of the events named name
ids_named(e, name) == { k \in DOMAIN e._all_events : e._all_events[k][1] = name }

\* the scan of get_id_by_name over the dict in insertion order, that is in the
\* order of the ids: the first id whose event is named name, or None
get_id_by_name(e, name) ==
    IF ids_named(e, name) = {} THEN << >>
    ELSE << CHOOSE k \in ids_named(e, name) : \A j \in ids_named(e, name) : k <= j >>

EventCall(name, r) ==
    /\ WidgetCall(name, "ok", r)
    /\ UNCHANGED <<menus, made, keyb, fired, shp, drawn>>

new_call(name, act) ==
    /\ evts._last_event_id < MaxObjects
    /\ EventCall("new", << >>)
    /\ evts' = new(evts, name, act)

NewEvent == \E name \in EventNames, act \in Acts : new_call(name, act)

GetIdByName ==
    \E name \in EventNames :
        /\ EventCall("get_id_by_name", get_id_by_name(evts, name))
        /\ UNCHANGED evts

NextEvents == NewEvent \/ GetIdByName

SpecEvents == Init /\ [][NextEvents]_vars

\* every registered id has been handed out: none is above the last event id
IdsHandedOut ==
    /\ DOMAIN evts._events_act = DOMAIN evts._all_events
    /\ \A k \in DOMAIN evts._all_events : k <= evts._last_event_id

Points == {<<0, 0>>, <<4, 3>>}

begin_shape(h) ==
    IF h._is_drawing_shape THEN Ret(h, "warn_already_drawing")
    ELSE Ok([h EXCEPT !._is_drawing_shape = TRUE])

\* a vertex that does not look at the shape flag
vertex_unguarded(h, point) == Ok([h EXCEPT !._all_vertexes = Append(@, point)])

vertex(h, point) ==
    IF ~h._is_drawing_shape THEN Ret(h, "warn_not_drawing")
    ELSE Ok([h EXCEPT !._all_vertexes = Append(@, point)])

\* a drawing method: the renderer it leaves, its outcome and the calls of
\* pygame.draw it made, each with the transforms its points went through
RetD(s, o, d) == [s |-> s, o |-> o, d |-> d]

\* pygame.draw.lines raises ValueError for fewer than 2 points
lines(s, points, closed) ==
    IF Len(points) < 2 THEN RetD(s, "raise", << >>)
    ELSE RetD(s, "ok", << <<"lines", s._stroke_color, closed, points, Matrix(s), s._stroke_weight>> >>)

\* pygame.draw.polygon raises ValueError for fewer than 3 points
polygon(s, points) ==
    LET s1 == _debug_enabled_drawing_methods(s).s
        fill == IF s1._fill
                THEN << <<"polygon", s1._fill_color, points, Matrix(s1), 0>> >>
                ELSE << >>
        stroke == IF s1._stroke
                  THEN << <<"polygon", s1._stroke_color, points, Matrix(s1), s1._stroke_weight>> >>
                  ELSE << >>
    IN  IF Len(points) < 3 THEN RetD(s1, "raise", << >>)
        ELSE RetD(s1, "ok", fill \o stroke)

\* the renderer, the shape state, the outcome and the drawing of a shape method
RetS(s, h, o, d) == [s |-> s, h |-> h, o |-> o, d |-> d]

\* with closed and no vertex, _all_vertexes[0] raises IndexError; when the
\* drawing method raises, the shape stays open with the closing vertex appended
end_shape(s, h, filled, closed) ==
    IF ~h._is_drawing_shape THEN RetS(s, h, "warn_not_drawing", << >>)
    ELSE IF closed /\ h._all_vertexes = << >> THEN RetS(s, h, "raise", << >>)
    ELSE LET h1 == [h EXCEPT !._all_vertexes = IF closed THEN Append(@, @[1]) ELSE @]
             r == IF filled THEN polygon(s, h1._all_vertexes)
                  ELSE lines(s, h1._all_vertexes, FALSE)
         IN  IF r.o = "raise" THEN RetS(r.s, h1, "raise", r.d)
             ELSE RetS(r.s, [h1 EXCEPT !._is_drawing_shape = FALSE, !._all_vertexes = << >>],
                       "ok", r.d)

ShapeCall(name, r) ==
    /\ UserCode
    /\ calls < (IF pc = "idle" THEN MaxCalls ELSE MaxRunCalls)
    /\ last' = name
    /\ self' = r.s
    /\ shp' = r.h
    /\ out' = r.o
    /\ drawn' = r.d
    /\ calls' = calls + 1
    /\ UNCHANGED <<pc, frame, ghost, undone, prev, acted>>
    /\ UNCHANGED <<menus, made, ret, keyb, fired, evts>>

begin_shape_call ==
    LET r == begin_shape(shp) IN ShapeCall("begin_shape", RetS(self, r.s, r.o, << >>))

BeginShape == begin_shape_call

vertex_call(point) ==
    /\ Len(shp._all_vertexes) < MaxObjects
    /\ LET r == vertex(shp, point) IN ShapeCall("vertex", RetS(self, r.s, r.o, << >>))

Vertex == \E point \in Points : vertex_call(point)

end_shape_call(filled, closed) ==
    ShapeCall("end_shape", end_shape(self, shp, filled, closed))

EndShape == \E filled \in BOOLEAN, closed \in BOOLEAN : end_shape_call(filled, closed)

NextShapes == BeginShape \/ Vertex \/ EndShape \/ NoFill \/ NoStroke

SpecShapes == Init /\ [][NextShapes]_vars

\* C15: vertex and end_shape called while no shape is being drawn leave the
\* shape flag, the vertex list and the renderer as they were and draw nothing;
\* begin_shape called while a shape is being drawn leaves the shape open with
\* the vertices collected so far, and draws nothing.
C15_WrongStateCallsDoNothing ==
    [][/\ \A point \in Points :
            (vertex_call(point) /\ ~shp._is_drawing_shape)
                => (shp' = shp /\ self' = self /\ drawn' = << >>)
       /\ \A filled \in BOOLEAN, closed \in BOOLEAN :
            (end_shape_call(filled, closed) /\ ~shp._is_drawing_shape)
                => (shp' = shp /\ self' = self /\ drawn' = << >>)
       /\ (begin_shape_call /\ shp._is_drawing_shape)
            => /\ shp'._is_drawing_shape
               /\ shp'._all_vertexes = shp._all_vertexes
               /\ self' = self /\ drawn' = << >>]_vars

\* begin_shape has just been refused on an open shape that holds two vertices
C15_Witness ==
    /\ last = "begin_shape" /\ out = "warn_already_drawing"
    /\ shp._is_drawing_shape
    /\ Len(shp._all_vertexes) = 2

====
